---- MODULE Spec2Model ----
(***************************************************************************)
(* Mask reconciliation and scoring engine of mrcnn/analyze.py:             *)
(* ModelTester.test() drives one Analyzer per image; each Analyzer loads   *)
(* the ground truth and the detector output, splits and merges masks,      *)
(* matches bounding boxes by IoU and fills a confusion matrix and the      *)
(* per-class counters that ModelTester sums over the dataset.              *)
(*                                                                         *)
(* Rasters are H x W grids stored row-major as tuples over 1..H*W.         *)
(* Scores are hundredths kept as exact fractions <<num, den>>; IoU values  *)
(* are exact fractions <<intersection, union>>.                            *)
(***************************************************************************)
EXTENDS Integers, Sequences, FiniteSets, TLC

\* ------------------------------------------------------------------ bounds
H == 2
W == 2
MaxDet == 2
MaxChan == 2
MaxImages == 2
MaxCalls == 2

\* --------------------------------------------------------------- utilities
Cells == 1..(H * W)
RowOf(c) == (c - 1) \div W
ColOf(c) == (c - 1) % W

SetMin(S) == CHOOSE x \in S : \A y \in S : x <= y
SetMax(S) == CHOOSE x \in S : \A y \in S : x >= y

RECURSIVE SeqSum(_)
SeqSum(s) == IF s = <<>> THEN 0 ELSE Head(s) + SeqSum(Tail(s))

RECURSIVE SetToSeq(_)
\* the members of a set of integers in ascending order
SetToSeq(S) == IF S = {} THEN <<>> ELSE <<SetMin(S)>> \o SetToSeq(S \ {SetMin(S)})

RECURSIVE Flatten(_)
Flatten(ss) == IF ss = <<>> THEN <<>> ELSE Head(ss) \o Flatten(Tail(ss))

\* Python list indexing: a negative index counts from the end
PyIndex(s, i) == IF i >= 0 THEN s[i + 1] ELSE s[Len(s) + i + 1]

\* exact comparison of two non-negative fractions <<num, den>>, den > 0
FracGT(a, b) == a[1] * b[2] > b[1] * a[2]
FracGE(a, b) == a[1] * b[2] >= b[1] * a[2]
FracEQ(a, b) == a[1] * b[2] = b[1] * a[2]

\* ------------------------------------------------------------ mask methods
ZeroMask == [c \in Cells |-> 0]
Foreground(mask) == {c \in Cells : mask[c] # 0}

\* an adjacency that also joins the 4 diagonal neighbours (connectivity=2)
Adjacent_Diagonal(c, d) ==
    /\ c # d
    /\ RowOf(c) - RowOf(d) \in {-1, 0, 1}
    /\ ColOf(c) - ColOf(d) \in {-1, 0, 1}

\* edge adjacency: the 4 orthogonal neighbours, no diagonals
Adjacent(c, d) ==
    \/ RowOf(c) = RowOf(d) /\ (ColOf(c) - ColOf(d) = 1 \/ ColOf(d) - ColOf(c) = 1)
    \/ ColOf(c) = ColOf(d) /\ (RowOf(c) - RowOf(d) = 1 \/ RowOf(d) - RowOf(c) = 1)

RECURSIVE Grow(_, _)
\* the cells reachable from the set S through adjacent cells of equal value
Grow(mask, S) ==
    LET T == S \cup {d \in Cells : \E c \in S : Adjacent(c, d) /\ mask[d] = mask[c]}
    IN  IF T = S THEN S ELSE Grow(mask, T)

ComponentOf(mask, c) == Grow(mask, {c})

\* first cell, in raster order, of every foreground component
Roots(mask) == {SetMin(ComponentOf(mask, c)) : c \in Foreground(mask)}

\* skimage.measure.label(mask, background=0, return_num=True, connectivity=1):
\* neighbours of equal value share a label; labels 1..n in raster order
extract_mask_connected_components(mask) ==
    LET roots == Roots(mask)
        lab(c) == IF mask[c] = 0 THEN 0
                  ELSE Cardinality({r \in roots : r <= SetMin(ComponentOf(mask, c))})
    IN  [labels |-> [c \in Cells |-> lab(c)], ncomponents |-> Cardinality(roots)]

\* a merge that adds the masks without collapsing the sums above 1
merge_masks_Sum(mask1, mask2) == [c \in Cells |-> mask1[c] + mask2[c]]

merge_masks(mask1, mask2) ==
    LET mask == [c \in Cells |-> mask1[c] + mask2[c]]
    IN  [c \in Cells |-> IF mask[c] > 1 THEN 1 ELSE mask[c]]

are_mask_connected(mask1, mask2) ==
    LET n1 == extract_mask_connected_components(mask1).ncomponents
        n2 == extract_mask_connected_components(mask2).ncomponents
        n  == extract_mask_connected_components(merge_masks(mask1, mask2)).ncomponents
    IN  IF n = n1 + n2 THEN FALSE ELSE TRUE

\* utils.extract_bboxes on one mask: the tight box (y1, x1, y2, x2) with
\* exclusive lower-right corner, all zeros for a mask without foreground
extract_bboxes(mask) ==
    LET fg == Foreground(mask)
        rows == {RowOf(c) : c \in fg}
        cols == {ColOf(c) : c \in fg}
    IN  IF fg = {} THEN <<0, 0, 0, 0>>
        ELSE <<SetMin(rows), SetMin(cols), SetMax(rows) + 1, SetMax(cols) + 1>>

BoxArea(b) == (b[3] - b[1]) * (b[4] - b[2])
Max2(a, b) == IF a >= b THEN a ELSE b
Min2(a, b) == IF a <= b THEN a ELSE b

\* utils.get_iou: intersection over union of two boxes as the fraction
\* <<intersection, union>>; 0 when they do not intersect or one is empty
get_iou(b1, b2) ==
    LET ih == Min2(b1[3], b2[3]) - Max2(b1[1], b2[1])
        iw == Min2(b1[4], b2[4]) - Max2(b1[2], b2[2])
        inter == IF ih > 0 /\ iw > 0 THEN ih * iw ELSE 0
        union == BoxArea(b1) + BoxArea(b2) - inter
    IN  IF inter = 0 \/ BoxArea(b1) = 0 \/ BoxArea(b2) = 0 THEN <<0, 1>>
        ELSE <<inter, union>>

\* ------------------------------------------------------------------ classes
\* the class table shared by dataset and detector (ids 0..n_classes-1, the
\* labels of Analyzer.class_color_map)
class_names == <<"bkg", "sidelobe", "source", "galaxy_C2", "galaxy_C3">>
n_classes == Len(class_names)
ClassIds == 0..(n_classes - 1)
LabelOf(class_id) == class_names[class_id + 1]
\* a test that treats only galaxy_C3 as a whole-object class
IsGalaxy_C3Only(label) == label = "galaxy_C3"

IsGalaxy(label) == label = "galaxy_C2" \/ label = "galaxy_C3"

ZeroVector == [j \in ClassIds |-> 0]
ZeroMatrix == [i \in ClassIds |-> [j \in ClassIds |-> 0]]
ZeroFracVector == [j \in ClassIds |-> <<0, 1>>]
ZeroFracMatrix == [i \in ClassIds |-> [j \in ClassIds |-> <<0, 1>>]]

\* ------------------------------------------------------------------- graph
\* mrcnn.graph.Graph: N nodes 0..N-1, a set of undirected edges, and the
\* partition of the nodes by reachability, groups in order of discovery
RECURSIVE Reach(_, _)
Reach(edges, S) ==
    LET T == S \cup {v \in UNION edges : \E e \in edges : v \in e /\ e \cap S # {}}
    IN  IF T = S THEN S ELSE Reach(edges, T)

RECURSIVE ComponentsFrom(_, _)
ComponentsFrom(edges, left) ==
    IF left = {} THEN <<>>
    ELSE LET group == Reach(edges, {SetMin(left)})
         IN  <<SetToSeq(group)>> \o ComponentsFrom(edges, left \ group)

connectedComponents(N, edges) == ComponentsFrom(edges, 0..(N - 1))

\* the node pairs visited by "for i in range(N): for j in range(i+1,N)"
NodePairs(N) == {p \in (0..(N - 1)) \X (0..(N - 1)) : p[1] < p[2]}

\* ---------------------------------------------------------------- Analyzer
\* Analyzer.__init__; the fields after nobjs_det_right are the locals of
\* extract_gt_masks, extract_det_masks and compute_performances, kept so that
\* the stages of the three methods can be inspected
NewAnalyzer(score_thr, iou_thr) ==
    [masks_gt |-> <<>>, class_id_gt |-> 0, label_gt |-> "bkg",
     masks |-> <<>>, class_ids |-> <<>>, scores |-> <<>>, nobjects |-> 0,
     masks_gt_merged |-> <<>>, class_ids_gt_merged |-> <<>>, bboxes_gt |-> <<>>,
     masks_final |-> <<>>, class_ids_final |-> <<>>, scores_final |-> <<>>,
     bboxes |-> <<>>,
     score_thr |-> score_thr, iou_thr |-> iou_thr,
     confusion_matrix |-> ZeroMatrix, confusion_matrix_norm |-> ZeroFracMatrix,
     purity |-> ZeroFracVector, nobjs_true |-> ZeroVector,
     nobjs_det |-> ZeroVector, nobjs_det_right |-> ZeroVector,
     masks_gt_det |-> <<>>, class_ids_gt_det |-> <<>>, cc_gt |-> <<>>,
     scores_sel |-> <<>>,
     masks_det |-> <<>>, class_ids_det |-> <<>>, scores_det |-> <<>>, cc |-> <<>>,
     masks_merged |-> <<>>, class_ids_merged |-> <<>>, scores_merged |-> <<>>,
     cc_final |-> <<>>, index_best_true |-> <<>>, index_best_det |-> <<>>]

\* Analyzer.get_data past the dataset check: the detector output and the
\* ground truth of the image are stored on the analyzer
get_data(a, image) ==
    [a EXCEPT !.masks = image.masks, !.class_ids = image.class_ids,
              !.scores = image.scores, !.nobjects = Len(image.masks),
              !.masks_gt = image.masks_gt, !.class_id_gt = image.class_id_gt,
              !.label_gt = LabelOf(image.class_id_gt)]

\* the regions one ground-truth channel contributes (the body of the loop
\* over k): the channel itself for a galaxy image, else one region per
\* connected component, each built from "component_labels_gt==1"
GtRegions(mask_gt, label_gt, class_id_gt) ==
    IF IsGalaxy(label_gt)
    THEN <<[mask |-> mask_gt, class_id |-> class_id_gt]>>
    ELSE LET cl == extract_mask_connected_components(mask_gt)
             mask_indices == {c \in Cells : cl.labels[c] = 1}
             extracted_mask == [c \in Cells |-> IF c \in mask_indices THEN 1 ELSE 0]
             object_classid == mask_gt[SetMin(mask_indices)]
         IN  [i \in 1..cl.ncomponents |->
                 [mask |-> extracted_mask, class_id |-> object_classid]]

RECURSIVE FoldMerge(_, _, _)
\* merged_mask after the first j members of a group: the first member as it
\* is, every further one through merge_masks
FoldMerge(masks, group, j) ==
    IF j = 1 THEN masks[group[1] + 1]
    ELSE merge_masks(FoldMerge(masks, group, j - 1), masks[group[j] + 1])

\* a filter that also skips the groups of a single region
NonEmptyGroups_Pairs(cc) == SelectSeq(cc, LAMBDA g : Len(g) > 1)

NonEmptyGroups(cc) == SelectSeq(cc, LAMBDA g : g # <<>>)

\* an edge rule that ignores the class ids
Mergeable_AnyClass(masks, class_ids, i, j) ==
    are_mask_connected(masks[i + 1], masks[j + 1])

\* an edge rule that joins only regions of one class sharing a pixel
Mergeable_Overlap(masks, class_ids, i, j) ==
    /\ \E c \in Cells : masks[i + 1][c] # 0 /\ masks[j + 1][c] # 0
    /\ class_ids[i + 1] = class_ids[j + 1]

\* edge rule of the ground-truth graph and of detection pass 1
Mergeable(masks, class_ids, i, j) ==
    are_mask_connected(masks[i + 1], masks[j + 1]) /\ class_ids[i + 1] = class_ids[j + 1]

\* a pass-2 edge rule that joins only instances of one class
Overlapping_SameClass(masks, class_ids, i, j) ==
    are_mask_connected(masks[i + 1], masks[j + 1]) /\ class_ids[i + 1] = class_ids[j + 1]

\* edge rule of detection pass 2
Overlapping(masks, class_ids, i, j) ==
    are_mask_connected(masks[i + 1], masks[j + 1])

\* a graph with an edge between every two regions
MergeableEdges_All(masks, class_ids) ==
    {{p[1], p[2]} : p \in NodePairs(Len(masks))}

\* the edges g.addEdge(i,j) puts into the graph of the regions
MergeableEdges(masks, class_ids) ==
    {{p[1], p[2]} : p \in {q \in NodePairs(Len(masks)) :
                              Mergeable(masks, class_ids, q[1], q[2])}}

\* the edges g_final.addEdge(i,j) puts into the graph of the merged masks
OverlappingEdges(masks, class_ids) ==
    {{p[1], p[2]} : p \in {q \in NodePairs(Len(masks)) :
                              Overlapping(masks, class_ids, q[1], q[2])}}

\* extract_gt_masks, "Inspect ground truth masks": the loop over the channels
gt_inspect_masks(a) ==
    LET regions == Flatten([k \in 1..Len(a.masks_gt) |->
                       GtRegions(a.masks_gt[k], a.label_gt, a.class_id_gt)])
    IN  [a EXCEPT !.masks_gt_det = [i \in 1..Len(regions) |-> regions[i].mask],
                  !.class_ids_gt_det = [i \in 1..Len(regions) |-> regions[i].class_id]]

\* extract_gt_masks: the graph of the regions and its connected components
gt_connected_components(a) ==
    [a EXCEPT !.cc_gt = connectedComponents(Len(a.masks_gt_det),
                            MergeableEdges(a.masks_gt_det, a.class_ids_gt_det))]

\* extract_gt_masks: the loop over cc that merges every group
gt_merge_masks(a) ==
    LET groups == NonEmptyGroups(a.cc_gt)
    IN  [a EXCEPT !.masks_gt_merged = [g \in 1..Len(groups) |->
                      FoldMerge(a.masks_gt_det, groups[g], Len(groups[g]))],
                  !.class_ids_gt_merged = [g \in 1..Len(groups) |->
                      a.class_ids_gt_det[groups[g][Len(groups[g])] + 1]]]

\* extract_gt_masks: the loop that appends a bounding box and a caption per
\* merged mask; the caption lookup class_names[class_id] fails on a class id
\* outside the class table, after the box of that mask was appended
gt_bboxes(a) ==
    LET bad == {g \in 1..Len(a.masks_gt_merged) : a.class_ids_gt_merged[g] \notin ClassIds}
        nboxes == IF bad = {} THEN Len(a.masks_gt_merged) ELSE SetMin(bad)
    IN  [raised |-> bad # {},
         a |-> [a EXCEPT !.bboxes_gt = [g \in 1..nboxes |->
                                           extract_bboxes(a.masks_gt_merged[g])]]]

\* Analyzer.extract_gt_masks: the analyzer it leaves, and whether it raised
extract_gt_masks(a) ==
    gt_bboxes(gt_merge_masks(gt_connected_components(gt_inspect_masks(a))))

\* a filter that also drops a score equal to the threshold
SelectedIndices_Strict(scores, score_thr) ==
    SelectSeq([i \in 1..Len(scores) |-> i - 1], LAMBDA i : scores[i + 1] > score_thr)

\* positions 0..N-1 of the raw detections that pass "score<self.score_thr"
SelectedIndices(scores, score_thr) ==
    SelectSeq([i \in 1..Len(scores) |-> i - 1], LAMBDA i : ~(scores[i + 1] < score_thr))

RECURSIVE SortDesc(_, _)
SortDesc(scores, left) ==
    IF left = {} THEN <<>>
    ELSE LET best == CHOOSE i \in left : \A j \in left :
                         \/ scores[j + 1] < scores[i + 1]
                         \/ scores[j + 1] = scores[i + 1] /\ j <= i
         IN  <<best>> \o SortDesc(scores, left \ {best})

\* np.argsort(scores_sel)[::-1]: the ascending (stable for short lists)
\* order of the positions, reversed
sort_indices(scores_sel) == SortDesc(scores_sel, 0..(Len(scores_sel) - 1))

\* the regions one selected detection contributes: the mask itself for a
\* galaxy class, else one region per connected component i+1
\* a split that keeps only the first component of a mask
DetRegions_FirstComponent(mask, class_id, score) ==
    IF IsGalaxy(LabelOf(class_id))
    THEN <<[mask |-> mask, class_id |-> class_id, score |-> score]>>
    ELSE LET cl == extract_mask_connected_components(mask)
         IN  [i \in 1..Min2(cl.ncomponents, 1) |->
                 [mask |-> [c \in Cells |-> IF cl.labels[c] = i THEN 1 ELSE 0],
                  class_id |-> class_id, score |-> score]]

DetRegions(mask, class_id, score) ==
    IF IsGalaxy(LabelOf(class_id))
    THEN <<[mask |-> mask, class_id |-> class_id, score |-> score]>>
    ELSE LET cl == extract_mask_connected_components(mask)
         IN  [i \in 1..cl.ncomponents |->
                 [mask |-> [c \in Cells |-> IF cl.labels[c] = i THEN 1 ELSE 0],
                  class_id |-> class_id, score |-> score]]

\* a merged score that keeps the first member's score (merged_score)
ScoreAvg_First(scores_det, group) == <<scores_det[group[1] + 1], 1>>

\* score_avg of a group: the sum of the member scores times 1/n_merged
ScoreAvg(scores_det, group) ==
    <<SeqSum([j \in 1..Len(group) |-> scores_det[group[j] + 1]]), Len(group)>>

RECURSIVE ScanBestScore(_, _, _, _, _)
\* the loop over one pass-2 group: index_best after members j..n_overlapped,
\* entered with (index_best, score_best)
ScanBestScore(scores_merged, group, j, index_best, score_best) ==
    IF j > Len(group) THEN index_best
    ELSE LET index == group[j]
             score == scores_merged[index + 1]
         IN  IF FracGT(score, score_best)
             THEN ScanBestScore(scores_merged, group, j + 1, index, score)
             ELSE ScanBestScore(scores_merged, group, j + 1, index_best, score_best)

\* a selection that keeps the last member of the group, whatever its score
BestOfGroup_Last(scores_merged, group) == group[Len(group)]

BestOfGroup(scores_merged, group) == ScanBestScore(scores_merged, group, 1, -1, <<0, 1>>)

\* extract_det_masks, "Select detected objects with score larger than
\* threshold", then "Sort objects by descending scores" and "Separate all
\* detected objects which are not connected"
det_separate(a) ==
    LET sel == SelectedIndices(a.scores, a.score_thr)
        scores_sel == [i \in 1..Len(sel) |-> a.scores[sel[i] + 1]]
        order == sort_indices(scores_sel)
        regions == Flatten([k \in 1..Len(order) |->
                       DetRegions(a.masks[sel[order[k] + 1] + 1],
                                  a.class_ids[sel[order[k] + 1] + 1],
                                  scores_sel[order[k] + 1])])
    IN  [a EXCEPT !.scores_sel = scores_sel,
                  !.masks_det = [i \in 1..Len(regions) |-> regions[i].mask],
                  !.class_ids_det = [i \in 1..Len(regions) |-> regions[i].class_id],
                  !.scores_det = [i \in 1..Len(regions) |-> regions[i].score]]

\* extract_det_masks, "Init undirected graph" and "Compute connected masks"
det_connected_components(a) ==
    [a EXCEPT !.cc = connectedComponents(Len(a.masks_det),
                         MergeableEdges(a.masks_det, a.class_ids_det))]

\* extract_det_masks, "Merge connected masks"
det_merge_masks(a) ==
    LET groups == NonEmptyGroups(a.cc)
    IN  [a EXCEPT !.masks_merged = [g \in 1..Len(groups) |->
                      FoldMerge(a.masks_det, groups[g], Len(groups[g]))],
                  !.class_ids_merged = [g \in 1..Len(groups) |->
                      a.class_ids_det[groups[g][Len(groups[g])] + 1]],
                  !.scores_merged = [g \in 1..Len(groups) |->
                      ScoreAvg(a.scores_det, groups[g])]]

\* extract_det_masks, "Find if there are overlapping masks with different
\* class id"
det_overlapping_components(a) ==
    [a EXCEPT !.cc_final = connectedComponents(Len(a.masks_merged),
                               OverlappingEdges(a.masks_merged, a.class_ids_merged))]

\* extract_det_masks, "If so retain the one with largest score"
det_select_best(a) ==
    LET groups == NonEmptyGroups(a.cc_final)
        best == [g \in 1..Len(groups) |-> BestOfGroup(a.scores_merged, groups[g])]
    IN  [a EXCEPT !.masks_final = [g \in 1..Len(best) |-> PyIndex(a.masks_merged, best[g])],
                  !.class_ids_final = [g \in 1..Len(best) |->
                                          PyIndex(a.class_ids_merged, best[g])],
                  !.scores_final = [g \in 1..Len(best) |->
                                       PyIndex(a.scores_merged, best[g])]]

\* extract_det_masks, "Compute bounding boxes & image captions from selected
\* masks"
det_bboxes(a) ==
    [a EXCEPT !.bboxes = [i \in 1..Len(a.masks_final) |-> extract_bboxes(a.masks_final[i])]]

\* Analyzer.extract_det_masks
extract_det_masks(a) ==
    det_bboxes(det_select_best(det_overlapping_components(
        det_merge_masks(det_connected_components(det_separate(a))))))

\* a match rule that also accepts an IoU equal to the threshold
IsBetterMatch_AtThreshold(iou, iou_thr, iou_best) ==
    FracGE(iou, iou_thr) /\ FracGE(iou, iou_best)

\* a match rule that keeps the first of several candidates of equal IoU
IsBetterMatch_FirstOfTies(iou, iou_thr, iou_best) ==
    FracGT(iou, iou_thr) /\ FracGT(iou, iou_best)

\* the test of the association loops: "iou>self.iou_thr and iou>=iou_best"
IsBetterMatch(iou, iou_thr, iou_best) == FracGT(iou, iou_thr) /\ FracGE(iou, iou_best)

RECURSIVE ScanBestIou(_, _, _, _, _, _)
\* an association loop: index_best after candidates j..Len(boxes), entered
\* with (index_best, iou_best)
ScanBestIou(boxes, box, iou_thr, j, index_best, iou_best) ==
    IF j > Len(boxes) THEN index_best
    ELSE LET iou == get_iou(boxes[j], box)
         IN  IF IsBetterMatch(iou, iou_thr, iou_best)
             THEN ScanBestIou(boxes, box, iou_thr, j + 1, j - 1, iou)
             ELSE ScanBestIou(boxes, box, iou_thr, j + 1, index_best, iou_best)

BestMatch(boxes, box, iou_thr) == ScanBestIou(boxes, box, iou_thr, 1, -1, <<0, 1>>)

\* the confusion-matrix loop over the ground-truth boxes: the counters after
\* the first n ground-truth instances, matches[i] being the index_best of
\* instance i
RECURSIVE TrueLoop(_, _, _)
TrueLoop(a, matches, n) ==
    IF n = 0 THEN [confusion_matrix |-> ZeroMatrix, nobjs_true |-> ZeroVector]
    ELSE LET prev == TrueLoop(a, matches, n - 1)
             class_id_gt == a.class_ids_gt_merged[n]
             index_best == matches[n]
             class_id_det == a.class_ids_final[index_best + 1]
         IN  [confusion_matrix |->
                  IF index_best = -1 THEN prev.confusion_matrix
                  ELSE [prev.confusion_matrix EXCEPT ![class_id_gt][class_id_det] = @ + 1],
              nobjs_true |-> [prev.nobjs_true EXCEPT ![class_id_gt] = @ + 1]]

\* a rule that counts every matched detection as right, whatever its class
IsRightDetection_AnyClass(class_id, index_best, class_ids_gt_merged) ==
    index_best # -1

\* "correctly detected": a true box was associated and has the class of the
\* detected object
IsRightDetection(class_id, index_best, class_ids_gt_merged) ==
    index_best # -1 /\ class_id = class_ids_gt_merged[index_best + 1]

\* the purity loop over the detected boxes: the counters after the first n
\* detected instances, matches[j] being the index_best of instance j
RECURSIVE DetLoop(_, _, _)
DetLoop(a, matches, n) ==
    IF n = 0 THEN [nobjs_det |-> ZeroVector, nobjs_det_right |-> ZeroVector]
    ELSE LET prev == DetLoop(a, matches, n - 1)
             class_id == a.class_ids_final[n]
         IN  [nobjs_det |-> [prev.nobjs_det EXCEPT ![class_id] = @ + 1],
              nobjs_det_right |->
                  IF IsRightDetection(class_id, matches[n], a.class_ids_gt_merged)
                  THEN [prev.nobjs_det_right EXCEPT ![class_id] = @ + 1]
                  ELSE prev.nobjs_det_right]

\* row normalisation: row i divided by nobjs_true[i], rows without true
\* objects left as they were
Normalize(matrix, nobjs_true, norm_before) ==
    [i \in ClassIds |-> IF nobjs_true[i] <= 0 THEN norm_before[i]
                        ELSE [j \in ClassIds |-> <<matrix[i][j], nobjs_true[i]>>]]

Purity(nobjs_det_right, nobjs_det, purity_before) ==
    [j \in ClassIds |-> IF nobjs_det[j] <= 0 THEN purity_before[j]
                        ELSE <<nobjs_det_right[j], nobjs_det[j]>>]

\* Analyzer.compute_performances
compute_performances(a) ==
    LET index_best_true == [i \in 1..Len(a.bboxes_gt) |->
                               BestMatch(a.bboxes, a.bboxes_gt[i], a.iou_thr)]
        index_best_det == [j \in 1..Len(a.bboxes) |->
                              BestMatch(a.bboxes_gt, a.bboxes[j], a.iou_thr)]
        t == TrueLoop(a, index_best_true, Len(a.bboxes_gt))
        d == DetLoop(a, index_best_det, Len(a.bboxes))
    IN  [a EXCEPT !.index_best_true = index_best_true,
                  !.index_best_det = index_best_det,
                  !.confusion_matrix = t.confusion_matrix,
                  !.nobjs_true = t.nobjs_true,
                  !.confusion_matrix_norm =
                      Normalize(t.confusion_matrix, t.nobjs_true, ZeroFracMatrix),
                  !.nobjs_det = d.nobjs_det,
                  !.nobjs_det_right = d.nobjs_det_right,
                  !.purity = Purity(d.nobjs_det_right, d.nobjs_det, ZeroFracVector)]

\* -------------------------------------------------------------- ModelTester
\* ModelTester.__init__ with the options a caller sets before test()
NewTester(n_max_img, score_thr, iou_thr) ==
    [n_max_img |-> n_max_img, score_thr |-> score_thr, iou_thr |-> iou_thr,
     classification_matrix |-> ZeroMatrix,
     classification_matrix_norm |-> ZeroFracMatrix,
     purity |-> ZeroFracVector, nobjs_true |-> ZeroVector,
     nobjs_det |-> ZeroVector, nobjs_det_right |-> ZeroVector]

MatrixSum(A, B) == [i \in ClassIds |-> [j \in ClassIds |-> A[i][j] + B[i][j]]]
VectorSum(u, v) == [j \in ClassIds |-> u[j] + v[j]]

\* the perf data update_performances retrieves from the analyzer of a sample
\* image
Sample(a) ==
    [confusion_matrix |-> a.confusion_matrix, nobjs_true |-> a.nobjs_true,
     nobjs_det |-> a.nobjs_det, nobjs_det_right |-> a.nobjs_det_right]

\* an update that replaces the classification matrix by the sample's
update_performances_Overwrite(t, a) ==
    [t EXCEPT !.classification_matrix = a.confusion_matrix,
              !.nobjs_true = VectorSum(@, a.nobjs_true),
              !.nobjs_det = VectorSum(@, a.nobjs_det),
              !.nobjs_det_right = VectorSum(@, a.nobjs_det_right)]

\* an update that counts the detections of a sample twice
update_performances_Twice(t, a) ==
    [t EXCEPT !.classification_matrix = MatrixSum(@, a.confusion_matrix),
              !.nobjs_true = VectorSum(@, a.nobjs_true),
              !.nobjs_det = VectorSum(VectorSum(@, a.nobjs_det), a.nobjs_det),
              !.nobjs_det_right = VectorSum(@, a.nobjs_det_right)]

\* an update that leaves the true objects of the sample out
update_performances_NoTrue(t, a) ==
    [t EXCEPT !.classification_matrix = MatrixSum(@, a.confusion_matrix),
              !.nobjs_det = VectorSum(@, a.nobjs_det),
              !.nobjs_det_right = VectorSum(@, a.nobjs_det_right)]

\* ModelTester.update_performances
update_performances(t, a) ==
    [t EXCEPT !.classification_matrix = MatrixSum(@, a.confusion_matrix),
              !.nobjs_true = VectorSum(@, a.nobjs_true),
              !.nobjs_det = VectorSum(@, a.nobjs_det),
              !.nobjs_det_right = VectorSum(@, a.nobjs_det_right)]

\* a normalisation by the number of detected instead of true objects
tester_compute_performances_ByDet(t) ==
    [t EXCEPT !.classification_matrix_norm =
                  Normalize(t.classification_matrix, t.nobjs_det, @),
              !.purity = Purity(t.nobjs_det_right, t.nobjs_det, @)]

\* ModelTester.compute_performances
tester_compute_performances(t) ==
    [t EXCEPT !.classification_matrix_norm =
                  Normalize(t.classification_matrix, t.nobjs_true, @),
              !.purity = Purity(t.nobjs_det_right, t.nobjs_det, @)]

\* the cap test at the head of the loop, taken after "nimg+= 1"
StopInspection(n_max_img, nimg) == n_max_img > 0 /\ nimg >= n_max_img

\* ------------------------------------------------------------------ inputs
DefaultScoreThr == 70
DefaultIouThr == <<3, 5>>
Scores == {60, 70, 90}
IouThrs == {<<1, 5>>, <<1, 4>>, DefaultIouThr}
NoCap == -1
Caps == {NoCap} \cup (0..(MaxImages + 1))

BinaryMasks == [Cells -> {0, 1}]
FullMask == [c \in Cells |-> 1]
CornerMask == [c \in Cells |-> IF c = 1 THEN 1 ELSE 0]
\* masks of at most n foreground cells
MasksUpTo(n) == {m \in BinaryMasks : Cardinality(Foreground(m)) <= n}
\* the masks of shape m whose foreground pixels carry values of vals
Painted(m, vals) == {g \in [Cells -> vals \cup {0}] : Foreground(g) = Foreground(m)}
SeqsUpTo(S, lo, hi) == UNION {[1..k -> S] : k \in lo..hi}

Detection(mask, class_id, score) == [mask |-> mask, class_id |-> class_id, score |-> score]
\* detections of a splittable class (sidelobe) and a whole-object class
\* (galaxy_C2)
Detections(masks, scores) ==
    {Detection(m, c, s) : m \in masks, c \in {1, 3}, s \in scores}
GroundTruth(masks_gt, class_id_gt) == [masks_gt |-> masks_gt, class_id_gt |-> class_id_gt]

Image(gt, dets) ==
    [masks_gt |-> gt.masks_gt, class_id_gt |-> gt.class_id_gt,
     masks |-> [i \in 1..Len(dets) |-> dets[i].mask],
     class_ids |-> [i \in 1..Len(dets) |-> dets[i].class_id],
     scores |-> [i \in 1..Len(dets) |-> dets[i].score]]

\* detector outputs of up to MaxDet detections
DetWide == SeqsUpTo(Detections(MasksUpTo(2), Scores), 0, MaxDet)
DetMedium == SeqsUpTo(Detections(MasksUpTo(2), {90}), 0, MaxDet)
DetNarrow == {<<>>, <<Detection(FullMask, 3, 90)>>, <<Detection(CornerMask, 1, 90)>>}
\* ground truth of up to MaxChan channels with pixel values 1 (sidelobe) and
\* 2 (source), on a sidelobe and on a galaxy_C2 image
GtWide == {GroundTruth(gs, v) :
              gs \in SeqsUpTo(UNION {Painted(m, {1, 2}) : m \in MasksUpTo(2)}, 1, MaxChan),
              v \in {1, 3}}
GtNarrow == {GroundTruth(<<FullMask>>, 3), GroundTruth(<<CornerMask>>, 1)}
\* ground truth whose pixel value is no class id
GtUnknownClass == GroundTruth(<<[c \in Cells |-> IF c = 1 THEN n_classes ELSE 0]>>, 1)

ImagesOf(gts, dets) == {Image(g, d) : g \in gts, d \in dets}
\* the images of the matching checks, of the detection checks and of the
\* dataset passes
ImagesWide == ImagesOf(GtWide, DetNarrow) \cup ImagesOf(GtNarrow, DetMedium)
ImagesDet == ImagesOf(GtNarrow, DetWide)
ImagesTest ==
    ImagesOf(GtNarrow \cup {GtUnknownClass},
             DetNarrow \cup {<<Detection(CornerMask, 3, 90)>>, <<Detection(CornerMask, 1, 60)>>})

\* ------------------------------------------------------------- state machine
\* analyzed and updated list the images (by index) handed to inspect_results
\* and to update_performances, as the log of test() shows them
VARIABLES dataset, tester, nimg, index, analyzer, status, pc, analyzed, updated

\* the arguments and the result of a direct call of are_mask_connected
VARIABLES mask1, mask2, connected

maskvars == <<mask1, mask2, connected>>

\* the results of the analyzers handed to update_performances, in order
VARIABLES samples

\* one entry per completed call of test(): the tester it left and the number
\* of samples accumulated so far
VARIABLES calls

vars == <<dataset, tester, nimg, index, analyzer, status, pc, analyzed, updated,
          maskvars, samples, calls>>

\* Analyzer.get_data without a dataset: inspect_results returns -1
GetDataFail ==
    /\ pc = "inspect"
    /\ ~dataset.present
    /\ status' = -1
    /\ pc' = "status"
    /\ UNCHANGED <<maskvars, samples, calls, dataset, tester, nimg, index, analyzer, analyzed, updated>>

\* Analyzer.get_data: the image's detector output and ground truth, drawn
\* from the images the dataset can hold
GetData(images) ==
    /\ pc = "inspect"
    /\ dataset.present
    /\ \E image \in images : analyzer' = get_data(analyzer, image)
    /\ pc' = "gt"
    /\ UNCHANGED <<maskvars, samples, calls, dataset, tester, nimg, index, status, analyzed, updated>>

ExtractGtMasks ==
    /\ pc = "gt"
    /\ LET r == extract_gt_masks(analyzer)
       IN  /\ analyzer' = r.a
           /\ pc' = IF r.raised THEN "raised" ELSE "det"
    /\ UNCHANGED <<maskvars, samples, calls, dataset, tester, nimg, index, status, analyzed, updated>>

ExtractDetMasks ==
    /\ pc = "det"
    /\ analyzer.nobjects > 0
    /\ analyzer' = extract_det_masks(analyzer)
    /\ pc' = "perf"
    /\ UNCHANGED <<maskvars, samples, calls, dataset, tester, nimg, index, status, analyzed, updated>>

NoDetectedObject ==
    /\ pc = "det"
    /\ ~(analyzer.nobjects > 0)
    /\ pc' = "perf"
    /\ UNCHANGED <<maskvars, samples, calls, dataset, tester, nimg, index, analyzer, status, analyzed, updated>>

ComputePerformances ==
    /\ pc = "perf"
    /\ analyzer' = compute_performances(analyzer)
    /\ status' = 0
    /\ pc' = "status"
    /\ UNCHANGED <<maskvars, samples, calls, dataset, tester, nimg, index, analyzed, updated>>

\* the head of the loop of test(): the cap is reached
TestStop ==
    /\ pc = "loop"
    /\ index < dataset.n_images
    /\ StopInspection(tester.n_max_img, nimg + 1)
    /\ nimg' = nimg + 1
    /\ pc' = "final"
    /\ UNCHANGED <<maskvars, samples, calls, dataset, tester, index, analyzer, status, analyzed, updated>>

\* the head of the loop of test(): a fresh Analyzer inspects the next image
TestInspect ==
    /\ pc = "loop"
    /\ index < dataset.n_images
    /\ ~StopInspection(tester.n_max_img, nimg + 1)
    /\ nimg' = nimg + 1
    /\ analyzer' = NewAnalyzer(tester.score_thr, tester.iou_thr)
    /\ analyzed' = Append(analyzed, index)
    /\ pc' = "inspect"
    /\ UNCHANGED <<maskvars, samples, calls, dataset, tester, index, status, updated>>

\* the loop of test() runs out of images
TestLoopEnd ==
    /\ pc = "loop"
    /\ index = dataset.n_images
    /\ pc' = "final"
    /\ UNCHANGED <<maskvars, samples, calls, dataset, tester, nimg, index, analyzer, status, analyzed, updated>>

\* "if status<0: ... continue"
TestSkipFailed ==
    /\ pc = "status"
    /\ status < 0
    /\ index' = index + 1
    /\ pc' = "loop"
    /\ UNCHANGED <<maskvars, samples, calls, dataset, tester, nimg, analyzer, status, analyzed, updated>>

TestUpdate ==
    /\ pc = "status"
    /\ ~(status < 0)
    /\ tester' = update_performances(tester, analyzer)
    /\ updated' = Append(updated, index)
    /\ samples' = Append(samples, Sample(analyzer))
    /\ index' = index + 1
    /\ pc' = "loop"
    /\ UNCHANGED <<maskvars, calls, dataset, nimg, analyzer, status, analyzed>>

TestFinal ==
    /\ pc = "final"
    /\ tester' = tester_compute_performances(tester)
    /\ pc' = "done"
    /\ calls' = Append(calls, [tester |-> tester_compute_performances(tester),
                               nsamples |-> Len(samples)])
    /\ UNCHANGED <<maskvars, samples, dataset, nimg, index, analyzer, status, analyzed, updated>>

\* ModelTester.test() over a dataset of up to MaxImages images
Init ==
    /\ dataset \in [n_images : 0..MaxImages, present : BOOLEAN]
    /\ \E cap \in Caps : tester = NewTester(cap, DefaultScoreThr, DefaultIouThr)
    /\ nimg = 0
    /\ index = 0
    /\ analyzer = NewAnalyzer(DefaultScoreThr, DefaultIouThr)
    /\ status = 0
    /\ pc = "loop"
    /\ analyzed = <<>>
    /\ updated = <<>>
    /\ mask1 = ZeroMask /\ mask2 = ZeroMask /\ connected = FALSE
    /\ samples = <<>>
    /\ calls = <<>>

Next ==
    \/ TestStop
    \/ TestInspect
    \/ TestLoopEnd
    \/ GetDataFail
    \/ GetData(ImagesTest)
    \/ ExtractGtMasks
    \/ ExtractDetMasks
    \/ NoDetectedObject
    \/ ComputePerformances
    \/ TestSkipFailed
    \/ TestUpdate
    \/ TestFinal

Spec == Init /\ [][Next]_vars

\* one Analyzer.inspect_results call on a standalone analyzer
InitAnalyzer(iou_thrs) ==
    /\ dataset \in [n_images : {1}, present : BOOLEAN]
    /\ tester = NewTester(NoCap, DefaultScoreThr, DefaultIouThr)
    /\ nimg = 0
    /\ index = 0
    /\ \E iou_thr \in iou_thrs : analyzer = NewAnalyzer(DefaultScoreThr, iou_thr)
    /\ status = 0
    /\ pc = "inspect"
    /\ analyzed = <<>>
    /\ updated = <<>>
    /\ mask1 = ZeroMask /\ mask2 = ZeroMask /\ connected = FALSE
    /\ samples = <<>>
    /\ calls = <<>>

InitImage == InitAnalyzer(IouThrs)

NextImage ==
    \/ GetDataFail
    \/ GetData(ImagesWide)
    \/ ExtractGtMasks
    \/ ExtractDetMasks
    \/ NoDetectedObject
    \/ ComputePerformances

SpecImage == InitImage /\ [][NextImage]_vars

InitDet == InitAnalyzer({DefaultIouThr})

NextDet ==
    \/ GetDataFail
    \/ GetData(ImagesDet)
    \/ ExtractGtMasks
    \/ ExtractDetMasks
    \/ NoDetectedObject
    \/ ComputePerformances

SpecDet == InitDet /\ [][NextDet]_vars

\* a caller that keeps one Analyzer and calls inspect_results again on the
\* next image
InspectAgain ==
    /\ pc = "status"
    /\ status = 0
    /\ index + 1 < MaxImages
    /\ index' = index + 1
    /\ pc' = "inspect"
    /\ UNCHANGED <<maskvars, samples, calls, dataset, tester, nimg, analyzer, status, analyzed, updated>>

InitReuse == InitAnalyzer({DefaultIouThr})

NextReuse ==
    \/ GetDataFail
    \/ GetData(ImagesTest)
    \/ ExtractGtMasks
    \/ ExtractDetMasks
    \/ NoDetectedObject
    \/ ComputePerformances
    \/ InspectAgain

\* successive Analyzer.inspect_results calls on one analyzer
SpecReuse == InitReuse /\ [][NextReuse]_vars

\* test() is called again on the same ModelTester and the same dataset: the
\* loop restarts from the first image with nimg = 0, and the totals, which
\* only the constructor zeroes, are the ones the previous call left
TestAgain ==
    /\ pc = "done"
    /\ Len(calls) < MaxCalls
    /\ nimg' = 0
    /\ index' = 0
    /\ pc' = "loop"
    /\ UNCHANGED <<maskvars, samples, calls, dataset, tester, analyzer, status, analyzed, updated>>

InitRepeat == Init

NextRepeat ==
    \/ Next
    \/ TestAgain

SpecRepeat == InitRepeat /\ [][NextRepeat]_vars

\* a direct call of are_mask_connected on two masks of one image
InitMasks ==
    /\ dataset = [n_images |-> 0, present |-> FALSE]
    /\ tester = NewTester(NoCap, DefaultScoreThr, DefaultIouThr)
    /\ nimg = 0
    /\ index = 0
    /\ analyzer = NewAnalyzer(DefaultScoreThr, DefaultIouThr)
    /\ status = 0
    /\ pc = "masks"
    /\ analyzed = <<>>
    /\ updated = <<>>
    /\ mask1 \in BinaryMasks
    /\ mask2 \in BinaryMasks
    /\ connected = FALSE
    /\ samples = <<>>
    /\ calls = <<>>

AreMaskConnected ==
    /\ pc = "masks"
    /\ connected' = are_mask_connected(mask1, mask2)
    /\ pc' = "connected"
    /\ UNCHANGED <<mask1, mask2, samples, calls, dataset, tester, nimg, index, analyzer,
                   status, analyzed, updated>>

NextMasks == AreMaskConnected

SpecMasks == InitMasks /\ [][NextMasks]_vars

\* ================================================================== claims
\* the positions of test() and inspect_results() at which a stage is complete
AfterGt == pc \in {"det", "perf", "raised"} \/ (pc = "status" /\ status = 0)
AfterDet == (pc = "perf" \/ (pc = "status" /\ status = 0)) /\ analyzer.nobjects > 0
AfterPerf == pc = "status" /\ status = 0

NComponents(mask) == extract_mask_connected_components(mask).ncomponents
\* the cells of component i of a raw mask
ComponentCells(mask, i) ==
    {c \in Cells : extract_mask_connected_components(mask).labels[c] = i}
\* the number of regions the channels before channel k contribute
ChannelOffset(masks_gt, k) == SeqSum([q \in 1..(k - 1) |-> NComponents(masks_gt[q])])

\* C1: splitting a ground-truth mask of a splittable (non-galaxy) image with n
\* connected components emits n regions, the i-th being exactly the pixels of
\* component i with the class id read from a pixel of that component.
C1_GtRegionsAreTheComponents ==
    (AfterGt /\ ~IsGalaxy(analyzer.label_gt)) =>
        /\ Len(analyzer.masks_gt_det) =
               ChannelOffset(analyzer.masks_gt, Len(analyzer.masks_gt) + 1)
        /\ \A k \in 1..Len(analyzer.masks_gt) :
             \A i \in 1..NComponents(analyzer.masks_gt[k]) :
               LET r == ChannelOffset(analyzer.masks_gt, k) + i
                   cells == ComponentCells(analyzer.masks_gt[k], i)
               IN  /\ Foreground(analyzer.masks_gt_det[r]) = cells
                   /\ \A c \in cells :
                        analyzer.class_ids_gt_det[r] = analyzer.masks_gt[k][c]

\* the number of images test() is to inspect under the cap n_max_img
CappedCount(n_max_img, n_images) ==
    IF n_max_img > 0 THEN Min2(n_max_img, n_images) ELSE n_images

\* C2: with cap n_max_img = K > 0 over N images test() inspects and accumulates
\* exactly the first min(K, N) images; with n_max_img <= 0 all N images.
C2_CapCountsInspectedImages ==
    pc = "done" =>
        /\ analyzed = [i \in 1..CappedCount(tester.n_max_img, dataset.n_images) |-> i - 1]
        /\ dataset.present => updated = analyzed

TotalsAreZero ==
    /\ tester.classification_matrix = ZeroMatrix
    /\ tester.nobjs_true = ZeroVector
    /\ tester.nobjs_det = ZeroVector
    /\ tester.nobjs_det_right = ZeroVector

\* C3: a failure of one image's analysis (an error status, or an error raised
\* during extraction) never aborts test(): the failed image leaves the totals
\* unchanged and every later image is still analyzed.
C3_FailuresAreContained ==
    /\ pc # "raised"
    /\ (pc = "done" /\ ~(tester.n_max_img > 0)) => Len(analyzed) = dataset.n_images
    /\ ~dataset.present => TotalsAreZero

\* the detected instances whose box has an IoU with true box g strictly above
\* the threshold, and the true instances qualifying for detected box j
QualifyingDet(a, g) ==
    {j \in 1..Len(a.bboxes) : FracGT(get_iou(a.bboxes[j], a.bboxes_gt[g]), a.iou_thr)}
QualifyingTrue(a, j) ==
    {g \in 1..Len(a.bboxes_gt) : FracGT(get_iou(a.bboxes[j], a.bboxes_gt[g]), a.iou_thr)}
\* the candidates of Q whose IoU with box is the greatest of Q
GreatestIou(boxes, box, Q) ==
    {j \in Q : \A k \in Q : FracGE(get_iou(boxes[j], box), get_iou(boxes[k], box))}
\* the last-scanned candidate of greatest IoU, as a 0-based index; -1 for none
LastGreatest(boxes, box, Q) ==
    IF Q = {} THEN -1 ELSE SetMax(GreatestIou(boxes, box, Q)) - 1

\* C4: every ground-truth instance g is counted once in nobjs_true[c_g]; a
\* detection qualifies only with IoU strictly above iou_thr; g adds 1 to exactly
\* the cell confusion_matrix[c_g][class of a greatest-IoU qualifying detection]
\* and to no cell when nothing qualifies. One class-1 instance matched by one
\* class-1 detection gives confusion_matrix[1][1] = nobjs_det_right[1] =
\* purity[1] = 1.
C4_ConfusionAccounting ==
    AfterPerf =>
        LET a == analyzer
            G == 1..Len(a.bboxes_gt)
        IN  /\ \A c \in ClassIds :
                 a.nobjs_true[c] = Cardinality({g \in G : a.class_ids_gt_merged[g] = c})
            /\ \A g \in G :
                 /\ a.index_best_true[g] = -1 <=> QualifyingDet(a, g) = {}
                 /\ a.index_best_true[g] # -1 =>
                        a.index_best_true[g] + 1 \in
                            GreatestIou(a.bboxes, a.bboxes_gt[g], QualifyingDet(a, g))
            /\ \A c, d \in ClassIds :
                 a.confusion_matrix[c][d] =
                     Cardinality({g \in G : /\ a.class_ids_gt_merged[g] = c
                                            /\ QualifyingDet(a, g) # {}
                                            /\ a.class_ids_final[a.index_best_true[g] + 1] = d})
            /\ (/\ a.class_ids_gt_merged = <<1>>
                /\ a.class_ids_final = <<1>>
                /\ QualifyingDet(a, 1) = {1})
               => /\ a.confusion_matrix[1][1] = 1
                  /\ a.nobjs_det_right[1] = 1
                  /\ FracEQ(a.purity[1], <<1, 1>>)

\* C4 witness: the default thresholds, one class-1 true instance and one
\* class-1 detection above the IoU threshold, matched and counted
C4_Witness ==
    /\ AfterPerf
    /\ analyzer.iou_thr = DefaultIouThr
    /\ analyzer.class_ids_gt_merged = <<1>>
    /\ analyzer.class_ids_final = <<1>>
    /\ QualifyingDet(analyzer, 1) = {1}
    /\ analyzer.confusion_matrix[1][1] = 1
    /\ analyzer.nobjs_true[1] = 1

\* C5: in both association scans the candidate chosen is, among those with IoU
\* above iou_thr, one of greatest IoU, and among several of exactly that IoU
\* the one scanned last.
C5_LastOfGreatestIou ==
    AfterPerf =>
        LET a == analyzer
        IN  /\ \A g \in 1..Len(a.bboxes_gt) :
                 a.index_best_true[g] =
                     LastGreatest(a.bboxes, a.bboxes_gt[g], QualifyingDet(a, g))
            /\ \A j \in 1..Len(a.bboxes) :
                 a.index_best_det[j] =
                     LastGreatest(a.bboxes_gt, a.bboxes[j], QualifyingTrue(a, j))

\* C5 witness: two detections tie on the greatest IoU with a true box and the
\* later one is the match
C5_Witness ==
    /\ AfterPerf
    /\ \E g \in 1..Len(analyzer.bboxes_gt) :
         LET best == GreatestIou(analyzer.bboxes, analyzer.bboxes_gt[g],
                                 QualifyingDet(analyzer, g))
         IN  /\ Cardinality(best) >= 2
             /\ analyzer.index_best_true[g] + 1 = SetMax(best)

\* C6: every final detection d is counted once in nobjs_det[c_d], and once in
\* nobjs_det_right[c_d] exactly when some true instance has IoU with d above
\* iou_thr and the best of them (greatest IoU, last scanned on ties) has class
\* c_d.
C6_PurityAccounting ==
    AfterPerf =>
        LET a == analyzer
            D == 1..Len(a.bboxes)
            best(j) == LastGreatest(a.bboxes_gt, a.bboxes[j], QualifyingTrue(a, j))
        IN  \A c \in ClassIds :
              /\ a.nobjs_det[c] = Cardinality({j \in D : a.class_ids_final[j] = c})
              /\ a.nobjs_det_right[c] =
                     Cardinality({j \in D : /\ a.class_ids_final[j] = c
                                            /\ QualifyingTrue(a, j) # {}
                                            /\ a.class_ids_gt_merged[best(j) + 1] = c})

\* C6 witness: a detection with a qualifying true instance of its own class is
\* not counted right, because the best true instance has another class
C6_Witness ==
    /\ AfterPerf
    /\ \E j \in 1..Len(analyzer.bboxes) :
         /\ \E g \in QualifyingTrue(analyzer, j) :
              analyzer.class_ids_gt_merged[g] = analyzer.class_ids_final[j]
         /\ analyzer.nobjs_det[analyzer.class_ids_final[j]] = 1
         /\ analyzer.nobjs_det_right[analyzer.class_ids_final[j]] = 0

\* two pixels of the grid share an edge: one step up, down, left or right
EdgeNeighbours(c, d) ==
    \/ (d = c + 1 /\ c % W # 0) \/ (c = d + 1 /\ d % W # 0)
    \/ d = c + W \/ c = d + W
\* two masks touch when a pixel of one is a pixel of, or edge-adjacent to a
\* pixel of, the other
Touching(maskA, maskB) ==
    \E c \in Foreground(maskA), d \in Foreground(maskB) : c = d \/ EdgeNeighbours(c, d)
\* the groups of a component list, as sets of 1-based positions
Blocks(cc) == {{cc[g][k] + 1 : k \in 1..Len(cc[g])} : g \in 1..Len(cc)}
\* a family of blocks is the set of connected components of the relation
\* related(i, j) over 1..N: a partition, closed under the relation, every
\* block connected by it
AreComponents(blocks, N, related(_, _)) ==
    /\ {} \notin blocks
    /\ UNION blocks = 1..N
    /\ \A B1, B2 \in blocks : B1 # B2 => B1 \cap B2 = {}
    /\ \A i, j \in 1..N :
         (i # j /\ related(i, j)) => \E B \in blocks : i \in B /\ j \in B
    /\ \A B \in blocks : \A S \in (SUBSET B) \ {{}, B} :
         \E i \in S, j \in B \ S : related(i, j)
\* the union of the masks at the positions of B
UnionMask(masks, B) ==
    [c \in Cells |-> IF \E i \in B : masks[i][c] # 0 THEN 1 ELSE 0]

\* C7: pass 1 of extract_det_masks yields exactly one merged instance per
\* connected component of the graph joining regions that touch AND have the
\* same class id; its mask is the union of the component's regions; touching
\* regions of the same class end in one instance, regions of different
\* classes never do.
C7_PassOneMergesSameClass ==
    AfterDet =>
        LET a == analyzer
            N == Len(a.masks_det)
            sameClassTouching(i, j) ==
                /\ Touching(a.masks_det[i], a.masks_det[j])
                /\ a.class_ids_det[i] = a.class_ids_det[j]
        IN  /\ AreComponents(Blocks(a.cc), N, sameClassTouching)
            /\ Len(a.masks_merged) = Cardinality(Blocks(a.cc))
            /\ Len(a.cc) = Len(a.masks_merged)
            /\ \A g \in 1..Len(a.masks_merged) :
                 LET B == {a.cc[g][k] + 1 : k \in 1..Len(a.cc[g])}
                 IN  /\ a.masks_merged[g] = UnionMask(a.masks_det, B)
                     /\ \A i \in B : a.class_ids_det[i] = a.class_ids_merged[g]

\* C7 witness: two touching regions of one class, one merged instance whose
\* mask is strictly larger than either
C7_Witness ==
    /\ AfterDet
    /\ Len(analyzer.masks_det) = 2
    /\ analyzer.masks_det[1] # analyzer.masks_det[2]
    /\ Touching(analyzer.masks_det[1], analyzer.masks_det[2])
    /\ analyzer.class_ids_det[1] = analyzer.class_ids_det[2]
    /\ Len(analyzer.masks_merged) = 1
    /\ Foreground(analyzer.masks_merged[1]) =
           Foreground(analyzer.masks_det[1]) \cup Foreground(analyzer.masks_det[2])

\* C8: pass 2 groups the merged instances by the connected components of the
\* touching-only graph and appends exactly one instance per group to the
\* final list: a member of the group whose score no other member exceeds.
C8_PassTwoKeepsHighestScore ==
    AfterDet =>
        LET a == analyzer
            N == Len(a.masks_merged)
            touching(i, j) == Touching(a.masks_merged[i], a.masks_merged[j])
        IN  /\ AreComponents(Blocks(a.cc_final), N, touching)
            /\ Len(a.masks_final) = Cardinality(Blocks(a.cc_final))
            /\ Len(a.cc_final) = Len(a.masks_final)
            /\ \A g \in 1..Len(a.masks_final) :
                 LET B == {a.cc_final[g][k] + 1 : k \in 1..Len(a.cc_final[g])}
                 IN  \E m \in B :
                       /\ a.masks_final[g] = a.masks_merged[m]
                       /\ a.class_ids_final[g] = a.class_ids_merged[m]
                       /\ a.scores_final[g] = a.scores_merged[m]
                       /\ \A k \in B : FracGE(a.scores_merged[m], a.scores_merged[k])

\* C8 witness: two touching instances of different classes with different
\* scores, only the higher-scored one is final
C8_Witness ==
    /\ AfterDet
    /\ Len(analyzer.masks_merged) = 2
    /\ analyzer.class_ids_merged[1] # analyzer.class_ids_merged[2]
    /\ Touching(analyzer.masks_merged[1], analyzer.masks_merged[2])
    /\ ~FracEQ(analyzer.scores_merged[1], analyzer.scores_merged[2])
    /\ Len(analyzer.masks_final) = 1
    /\ \A k \in 1..2 : FracGE(analyzer.scores_final[1], analyzer.scores_merged[k])

\* the positions of the raw detections whose score is not below the threshold
KeptPositions(a) == {i \in 1..Len(a.scores) : a.scores[i] >= a.score_thr}
\* the analyzer with the raw detections below the threshold taken out of the
\* model output
WithoutLowScores(a) ==
    LET kept == SetToSeq(KeptPositions(a))
    IN  [a EXCEPT !.masks = [k \in 1..Len(kept) |-> a.masks[kept[k]]],
                  !.class_ids = [k \in 1..Len(kept) |-> a.class_ids[kept[k]]],
                  !.scores = [k \in 1..Len(kept) |-> a.scores[kept[k]]],
                  !.nobjects = Len(kept)]
\* what extract_det_masks leaves behind
DetOutput(a) ==
    <<a.scores_sel, a.masks_det, a.class_ids_det, a.scores_det, a.masks_merged,
      a.class_ids_merged, a.scores_merged, a.masks_final, a.class_ids_final,
      a.scores_final, a.bboxes>>
\* the number of instances counted by a per-class counter
Counted(v) == SeqSum([k \in 1..n_classes |-> v[k - 1]])
\* what compute_performances leaves behind
PerfOutput(a) ==
    <<a.nobjs_true, a.nobjs_det, a.nobjs_det_right, a.confusion_matrix>>

C10_EmptyMasksAreDropped ==
    AfterDet =>
        /\ \A i \in 1..Len(analyzer.bboxes) : Foreground(analyzer.masks_final[i]) # {}
        /\ AfterPerf =>
             Counted(analyzer.nobjs_det) =
                 Cardinality({i \in 1..Len(analyzer.masks_final) :
                                 Foreground(analyzer.masks_final[i]) # {}})

\* C11: an image whose detector output holds no detection at or above
\* score_thr (zero raw detections included) contributes zero detections, on a
\* fresh Analyzer and on one that analyzed other images before: nobjs_det,
\* nobjs_det_right and the confusion matrix are all zero and every true
\* instance is counted only in nobjs_true.
C11_NoDetectionContributesNothing ==
    (AfterPerf /\ KeptPositions(analyzer) = {}) =>
        /\ analyzer.nobjs_det = ZeroVector
        /\ analyzer.nobjs_det_right = ZeroVector
        /\ analyzer.confusion_matrix = ZeroMatrix
        /\ Counted(analyzer.nobjs_true) = Len(analyzer.bboxes_gt)

IsPartitionByPaths(cc, N, edges) ==
    /\ \A g \in 1..Len(cc) : cc[g] # <<>>
    /\ SeqSum([g \in 1..Len(cc) |-> Len(cc[g])]) = N
    /\ AreComponents(Blocks(cc), N, LAMBDA i, j : {i - 1, j - 1} \in edges)
    /\ \A n \in 1..N :
         (\A e \in edges : n - 1 \notin e) => \E g \in 1..Len(cc) : cc[g] = <<n - 1>>

\* C14: connectedComponents() over the N regions returns non-empty, pairwise
\* disjoint groups whose union is {0..N-1}, two nodes sharing a group iff a
\* path of edges joins them, a node without edges being a singleton group;
\* the merge loops of extract_gt_masks and extract_det_masks emit exactly one
\* instance per group.
C14_ComponentsPartitionTheRegions ==
    /\ AfterGt =>
         /\ IsPartitionByPaths(analyzer.cc_gt, Len(analyzer.masks_gt_det),
                MergeableEdges(analyzer.masks_gt_det, analyzer.class_ids_gt_det))
         /\ Len(analyzer.masks_gt_merged) = Len(analyzer.cc_gt)
         /\ Len(analyzer.class_ids_gt_merged) = Len(analyzer.cc_gt)
    /\ AfterDet =>
         /\ IsPartitionByPaths(analyzer.cc, Len(analyzer.masks_det),
                MergeableEdges(analyzer.masks_det, analyzer.class_ids_det))
         /\ Len(analyzer.masks_merged) = Len(analyzer.cc)
         /\ Len(analyzer.scores_merged) = Len(analyzer.cc)

\* C14 witness: three detection regions, two joined by an edge and one
\* without edges, give a group of two and a singleton, hence two instances
C14_Witness ==
    /\ AfterDet
    /\ Len(analyzer.masks_det) = 3
    /\ \E g, h \in 1..Len(analyzer.cc) : Len(analyzer.cc[g]) = 2 /\ Len(analyzer.cc[h]) = 1
    /\ Len(analyzer.masks_merged) = 2

\* the totals of a tester
Totals(t) == <<t.classification_matrix, t.nobjs_true, t.nobjs_det, t.nobjs_det_right>>
RECURSIVE TesterAfter(_, _)
\* the tester that has accumulated the samples of a batch, in order
TesterAfter(t, batch) ==
    IF batch = <<>> THEN t
    ELSE TesterAfter(update_performances(t, Head(batch)), Tail(batch))
\* the samples at the positions B, in order
Batch(B) == [k \in 1..Cardinality(B) |-> samples[SetToSeq(B)[k]]]
\* element-wise sum of the totals of two testers
TotalsSum(t, u) ==
    <<[i \in ClassIds |-> [j \in ClassIds |->
          t.classification_matrix[i][j] + u.classification_matrix[i][j]]],
      [j \in ClassIds |-> t.nobjs_true[j] + u.nobjs_true[j]],
      [j \in ClassIds |-> t.nobjs_det[j] + u.nobjs_det[j]],
      [j \in ClassIds |-> t.nobjs_det_right[j] + u.nobjs_det_right[j]]>>

\* C15: for any split of the dataset into two batches, the element-wise sum
\* of the totals accumulated over each batch equals the totals of the whole
\* dataset processed in one pass without cap.
C15_AccumulationSplitsIntoBatches ==
    (pc = "done" /\ ~(tester.n_max_img > 0)) =>
        \A B \in SUBSET (1..Len(samples)) :
            TotalsSum(TesterAfter(NewTester(NoCap, DefaultScoreThr, DefaultIouThr), Batch(B)),
                      TesterAfter(NewTester(NoCap, DefaultScoreThr, DefaultIouThr),
                                  Batch((1..Len(samples)) \ B)))
                = Totals(tester)

\* C15 witness: a pass without cap over two analyzed images that both put a
\* match into the classification matrix
C15_Witness ==
    /\ pc = "done"
    /\ ~(tester.n_max_img > 0)
    /\ Len(samples) = 2
    /\ \A k \in 1..2 : samples[k].confusion_matrix # ZeroMatrix
    /\ samples[1] # samples[2]

\* C16: after ModelTester.compute_performances, a row i with nobjs_true[i] > 0
\* holds classification_matrix[i][j] / nobjs_true[i], a row with
\* nobjs_true[i] = 0 is all zero, and purity[j] is
\* nobjs_det_right[j] / nobjs_det[j] when nobjs_det[j] > 0 and 0 otherwise.
C16_NormalisedMatrixAndPurity ==
    pc = "done" =>
        /\ \A i, j \in ClassIds :
             /\ tester.classification_matrix_norm[i][j][2] # 0
             /\ IF tester.nobjs_true[i] > 0
                THEN tester.classification_matrix_norm[i][j][1] * tester.nobjs_true[i]
                         = tester.classification_matrix[i][j]
                             * tester.classification_matrix_norm[i][j][2]
                ELSE tester.classification_matrix_norm[i][j][1] = 0
        /\ \A j \in ClassIds :
             /\ tester.purity[j][2] # 0
             /\ IF tester.nobjs_det[j] > 0
                THEN tester.purity[j][1] * tester.nobjs_det[j]
                         = tester.nobjs_det_right[j] * tester.purity[j][2]
                ELSE tester.purity[j][1] = 0

\* C16 witness: a class with two true objects of which one is matched, so
\* the normalised entry is one half
C16_Witness ==
    /\ pc = "done"
    /\ \E i, j \in ClassIds :
         /\ tester.nobjs_true[i] = 2
         /\ tester.classification_matrix[i][j] = 1
         /\ FracEQ(tester.classification_matrix_norm[i][j], <<1, 2>>)

\* element-wise sum of one counter over the samples
SumOverSamples(counter(_)) ==
    [j \in ClassIds |-> SeqSum([k \in 1..Len(samples) |-> counter(samples[k])[j]])]
\* the totals are the sums of the contributions of the images accumulated so
\* far, which are the visited images whose analysis succeeded, once each
TotalsAreTheSums ==
    /\ tester.nobjs_true = SumOverSamples(LAMBDA smp : smp.nobjs_true)
    /\ tester.nobjs_det = SumOverSamples(LAMBDA smp : smp.nobjs_det)
    /\ tester.nobjs_det_right = SumOverSamples(LAMBDA smp : smp.nobjs_det_right)
    /\ \A i \in ClassIds :
         tester.classification_matrix[i] =
             SumOverSamples(LAMBDA smp : smp.confusion_matrix[i])
    /\ Len(samples) = Len(updated)
    /\ \A k \in 1..Len(updated) :
         /\ updated[k] \in {analyzed[n] : n \in 1..Len(analyzed)}
         /\ \A n \in 1..Len(updated) : updated[n] = updated[k] => n = k
\* one step of test(): no total decreases, and only the update after a
\* successful analysis changes a total, by that image's contribution
TotalsOnlyGrow ==
    /\ \A i, j \in ClassIds :
         /\ tester'.classification_matrix[i][j] >= tester.classification_matrix[i][j]
         /\ tester'.nobjs_true[j] >= tester.nobjs_true[j]
         /\ tester'.nobjs_det[j] >= tester.nobjs_det[j]
         /\ tester'.nobjs_det_right[j] >= tester.nobjs_det_right[j]
    /\ Totals(tester') # Totals(tester) =>
         /\ pc = "status" /\ status = 0
         /\ tester'.nobjs_true = VectorSum(tester.nobjs_true, analyzer.nobjs_true)
         /\ tester'.nobjs_det = VectorSum(tester.nobjs_det, analyzer.nobjs_det)
    /\ (pc = "loop" /\ pc' = "final") => Totals(tester') = Totals(tester)

\* C19: at every point of test() each running total is the element-wise sum
\* of the contributions of exactly the visited images whose analysis
\* succeeded, each counted once; no step decreases a total, and stopping
\* between images leaves the accumulated totals intact.
C19_RunningTotals == [] TotalsAreTheSums /\ [][TotalsOnlyGrow]_vars

\* C19 witness: the cap stops the pass before the last image, after an image
\* with a detection and a true object was accumulated
C19_Witness ==
    /\ pc = "final"
    /\ nimg = tester.n_max_img
    /\ index < dataset.n_images
    /\ Len(samples) = 1
    /\ Counted(tester.nobjs_det) = 1
    /\ Counted(tester.nobjs_true) = 1

\* the pass-1 merge of extract_det_masks applied to the instances it produced
RemergedDet(a) ==
    det_merge_masks(det_connected_components(
        [a EXCEPT !.masks_det = a.masks_merged,
                  !.class_ids_det = a.class_ids_merged,
                  !.scores_det = [g \in 1..Len(a.masks_merged) |-> a.scores_merged[g][1]]]))
\* the merge of extract_gt_masks applied to the instances it produced
RemergedGt(a) ==
    gt_merge_masks(gt_connected_components(
        [a EXCEPT !.masks_gt_det = a.masks_gt_merged,
                  !.class_ids_gt_det = a.class_ids_gt_merged]))
\* no two distinct instances of one class touch
NoSameClassContact(masks, class_ids) ==
    \A g, h \in 1..Len(masks) :
        (g # h /\ class_ids[g] = class_ids[h]) => ~Touching(masks[g], masks[h])

\* C17: merging the instances a pass-1 merge produced again (edge iff
\* touching and same class, union per component) returns the same instances,
\* mask-identical and class-identical: no two distinct pass-1 instances of
\* one class touch.
C17_MergeIsIdempotent ==
    /\ AfterDet =>
         /\ RemergedDet(analyzer).masks_merged = analyzer.masks_merged
         /\ RemergedDet(analyzer).class_ids_merged = analyzer.class_ids_merged
         /\ NoSameClassContact(analyzer.masks_merged, analyzer.class_ids_merged)
    /\ (AfterGt /\ pc # "raised") =>
         /\ RemergedGt(analyzer).masks_gt_merged = analyzer.masks_gt_merged
         /\ RemergedGt(analyzer).class_ids_gt_merged = analyzer.class_ids_gt_merged
         /\ NoSameClassContact(analyzer.masks_gt_merged, analyzer.class_ids_gt_merged)

\* C17 witness: three regions of one class, two of them merged, leave two
\* instances of that class
C17_Witness ==
    /\ AfterDet
    /\ Len(analyzer.masks_det) = 3
    /\ Len(analyzer.masks_merged) = 2
    /\ analyzer.class_ids_merged[1] = analyzer.class_ids_merged[2]
    /\ Foreground(analyzer.masks_merged[1]) # {}
    /\ Foreground(analyzer.masks_merged[2]) # {}

\* the class ids of the whole-object classes
WholeObjectClassIds == {c \in ClassIds : class_names[c + 1] \in {"galaxy_C2", "galaxy_C3"}}
\* the kept raw detections of a whole-object class, and the regions of such a
\* class, as (mask, class id, score) triples by position
WholeDetections(a) ==
    {i \in KeptPositions(a) : a.class_ids[i] \in WholeObjectClassIds}
WholeRegions(a) ==
    {r \in 1..Len(a.masks_det) : a.class_ids_det[r] \in WholeObjectClassIds}
DetectionTriple(a, i) == <<a.masks[i], a.class_ids[i], a.scores[i]>>
RegionTriple(a, r) == <<a.masks_det[r], a.class_ids_det[r], a.scores_det[r]>>

\* C18: for a whole-object class (galaxy_C2, galaxy_C3) splitting emits
\* exactly one region per input mask, equal to the input mask whatever its
\* number of components; a ground-truth region carries the image's declared
\* class id, a detection region its detection's class id and score.
C18_WholeObjectMasksAreNotSplit ==
    /\ (AfterGt /\ analyzer.label_gt \in {"galaxy_C2", "galaxy_C3"}) =>
         /\ analyzer.masks_gt_det = analyzer.masks_gt
         /\ analyzer.class_ids_gt_det =
                [k \in 1..Len(analyzer.masks_gt) |-> analyzer.class_id_gt]
    /\ AfterDet =>
         /\ Cardinality(WholeRegions(analyzer)) = Cardinality(WholeDetections(analyzer))
         /\ \A i \in WholeDetections(analyzer) :
              Cardinality({r \in WholeRegions(analyzer) :
                              RegionTriple(analyzer, r) = DetectionTriple(analyzer, i)})
                = Cardinality({k \in WholeDetections(analyzer) :
                              DetectionTriple(analyzer, k) = DetectionTriple(analyzer, i)})

\* C18 witness: a galaxy_C2 detection whose mask has two disconnected
\* components is one region, on a galaxy image whose mask is one region
C18_Witness ==
    /\ AfterDet
    /\ analyzer.label_gt = "galaxy_C2"
    /\ Len(analyzer.masks_gt_det) = 1
    /\ \E r \in WholeRegions(analyzer) : NComponents(analyzer.masks_det[r]) = 2

\* the sum of the scores of the regions at the positions B
ScoreSum(scores_det, B) == SeqSum([k \in 1..Cardinality(B) |-> scores_det[SetToSeq(B)[k]]])

\* C20: the score of every pass-1 merged instance is the arithmetic mean of
\* the scores of the regions of its group; a singleton group keeps its
\* region's score.
C20_MergedScoreIsTheMean ==
    AfterDet =>
        \A g \in 1..Len(analyzer.scores_merged) :
            LET B == {analyzer.cc[g][k] + 1 : k \in 1..Len(analyzer.cc[g])}
                score_avg == analyzer.scores_merged[g]
            IN  /\ score_avg[2] # 0
                /\ score_avg[1] * Cardinality(B)
                       = ScoreSum(analyzer.scores_det, B) * score_avg[2]
                /\ \A r \in B :
                     B = {r} => score_avg[1] = analyzer.scores_det[r] * score_avg[2]

\* C20 witness: a group of two regions with different scores, whose merged
\* score lies strictly between them
C20_Witness ==
    /\ AfterDet
    /\ \E g \in 1..Len(analyzer.cc) :
         /\ Len(analyzer.cc[g]) = 2
         /\ analyzer.scores_det[analyzer.cc[g][1] + 1] = 90
         /\ analyzer.scores_det[analyzer.cc[g][2] + 1] = 70
         /\ FracEQ(analyzer.scores_merged[g], <<80, 1>>)

\* the final instances are distinct merged instances: an injective choice of
\* positions of the merged list gives the final list
FinalsAreDistinctMerged(a) ==
    \E f \in [1..Len(a.masks_final) -> 1..Len(a.masks_merged)] :
        /\ \A g, h \in 1..Len(a.masks_final) : f[g] = f[h] => g = h
        /\ \A g \in 1..Len(a.masks_final) :
             /\ a.masks_final[g] = a.masks_merged[f[g]]
             /\ a.class_ids_final[g] = a.class_ids_merged[f[g]]
             /\ a.scores_final[g] = a.scores_merged[f[g]]

\* C21: after extract_det_masks no two distinct entries of masks_final touch
\* each other, and no merged instance is in the final list twice.
C21_FinalInstancesAreApart ==
    AfterDet =>
        /\ \A g, h \in 1..Len(analyzer.masks_final) :
             g # h => ~Touching(analyzer.masks_final[g], analyzer.masks_final[h])
        /\ FinalsAreDistinctMerged(analyzer)

\* C21 witness: three merged instances, two of them touching, leave two final
\* instances with pixels
C21_Witness ==
    /\ AfterDet
    /\ Len(analyzer.masks_merged) = 3
    /\ Len(analyzer.masks_final) = 2
    /\ \A g \in 1..2 : Foreground(analyzer.masks_final[g]) # {}

\* the sum of row c of a matrix of counts
RowSum(matrix, c) == SeqSum([k \in 1..n_classes |-> matrix[c][k - 1]])
\* the counters of an analyzer or of a tester are consistent
CountersAreConsistent(matrix, nobjs_true, nobjs_det, nobjs_det_right) ==
    \A c \in ClassIds :
        /\ 0 <= RowSum(matrix, c) /\ RowSum(matrix, c) <= nobjs_true[c]
        /\ 0 <= nobjs_det_right[c] /\ nobjs_det_right[c] <= nobjs_det[c]
\* a normalised row sums to at most 1 (its entries share the denominator
\* nobjs_true[c]) and every purity value lies in [0, 1]
NormalisedWithinOne(matrix_norm, purity) ==
    \A c \in ClassIds :
        /\ \A j \in ClassIds : matrix_norm[c][j][1] >= 0 /\ matrix_norm[c][j][2] > 0
        /\ \A j \in ClassIds : matrix_norm[c][j][2] = matrix_norm[c][0][2]
        /\ SeqSum([k \in 1..n_classes |-> matrix_norm[c][k - 1][1]]) <= matrix_norm[c][0][2]
        /\ FracGE(purity[c], <<0, 1>>) /\ FracGE(<<1, 1>>, purity[c])

\* C22: after every per-image compute_performances and for the running
\* totals at every point, for every class c the sum of row c of the confusion
\* matrix is at most nobjs_true[c] and nobjs_det_right[c] is at most
\* nobjs_det[c]; every normalised row sums to at most 1 and every purity
\* value lies in [0, 1].
C22_CountersAreConsistent ==
    /\ AfterPerf =>
         /\ CountersAreConsistent(analyzer.confusion_matrix, analyzer.nobjs_true,
                                  analyzer.nobjs_det, analyzer.nobjs_det_right)
         /\ NormalisedWithinOne(analyzer.confusion_matrix_norm, analyzer.purity)
    /\ CountersAreConsistent(tester.classification_matrix, tester.nobjs_true,
                             tester.nobjs_det, tester.nobjs_det_right)
    /\ NormalisedWithinOne(tester.classification_matrix_norm, tester.purity)

\* C22 witness: totals over two images in which a class has a matched and a
\* missed true object and a detection that is not right
C22_Witness ==
    /\ pc = "done"
    /\ Len(samples) = 2
    /\ \E c \in ClassIds : RowSum(tester.classification_matrix, c) = 1 /\ tester.nobjs_true[c] = 2
    /\ \E c \in ClassIds : tester.nobjs_det_right[c] < tester.nobjs_det[c]

\* every member of every group has the class id given to the group's merged
\* instance
GroupsAreOfOneClass(cc, class_ids, class_ids_merged) ==
    /\ Len(class_ids_merged) = Len(cc)
    /\ \A g \in 1..Len(cc) : \A k \in 1..Len(cc[g]) :
         class_ids[cc[g][k] + 1] = class_ids_merged[g]

\* C23: in the merge loops of the ground truth and of detection pass 1 every
\* group returned by connectedComponents is of one class: the class id given
\* to a merged instance, taken from the last member visited, is the class id
\* of every member of its group.
C23_GroupsAreClassHomogeneous ==
    /\ AfterGt =>
         GroupsAreOfOneClass(analyzer.cc_gt, analyzer.class_ids_gt_det,
                             analyzer.class_ids_gt_merged)
    /\ AfterDet =>
         GroupsAreOfOneClass(analyzer.cc, analyzer.class_ids_det,
                             analyzer.class_ids_merged)

\* C23 witness: ground-truth regions of two classes on the same pixel, those
\* of one class merged into a group of two, the other kept apart
C23_Witness ==
    /\ AfterGt
    /\ Len(analyzer.cc_gt) = 2
    /\ \E g, h \in 1..2 :
         /\ Len(analyzer.cc_gt[g]) = 2
         /\ analyzer.class_ids_gt_merged[g] # analyzer.class_ids_gt_merged[h]
         /\ Touching(analyzer.masks_gt_merged[g], analyzer.masks_gt_merged[h])

\* the second call of test() went over the same dataset as the first: it
\* visited the same images and every image contributed the same sample
SecondCallOnSameDataset ==
    /\ Len(calls) = 2
    /\ Len(samples) = 2 * calls[1].nsamples
    /\ \A k \in 1..calls[1].nsamples : samples[calls[1].nsamples + k] = samples[k]
    /\ \E n \in 0..MaxImages :
         /\ Len(analyzed) = 2 * n
         /\ \A k \in 1..n : analyzed[n + k] = analyzed[k]
\* the accumulated counters of two testers are equal
SameTotals(t, u) == Totals(t) = Totals(u)
\* the normalised matrix and the purity of two testers are equal as numbers
SameRatios(t, u) ==
    /\ \A i, j \in ClassIds :
         FracEQ(t.classification_matrix_norm[i][j], u.classification_matrix_norm[i][j])
    /\ \A j \in ClassIds : FracEQ(t.purity[j], u.purity[j])

\* C24: test() is repeatable: a second call of test() on the same ModelTester
\* and the same dataset leaves classification_matrix, nobjs_true, nobjs_det,
\* nobjs_det_right, classification_matrix_norm and purity equal to their
\* values after the first call.
C24_TestIsRepeatable ==
    (pc = "done" /\ SecondCallOnSameDataset) =>
        /\ SameTotals(calls[2].tester, calls[1].tester)
        /\ SameRatios(calls[2].tester, calls[1].tester)

\* what the second call does instead: it adds the dataset's totals once more,
\* so the four counters double while the ratios keep their values
C24_SecondCallDoublesTheTotals ==
    (pc = "done" /\ SecondCallOnSameDataset) =>
        /\ Totals(calls[2].tester) = TotalsSum(calls[1].tester, calls[1].tester)
        /\ SameRatios(calls[2].tester, calls[1].tester)
C24_DoubledWitness ==
    /\ pc = "done"
    /\ SecondCallOnSameDataset
    /\ calls[1].nsamples = 1
    /\ \E j \in ClassIds : calls[1].tester.nobjs_true[j] = 1 /\ calls[2].tester.nobjs_true[j] = 2

\* the pixels covered by the masks of a list
Pixels(masks) == UNION {Foreground(masks[k]) : k \in 1..Len(masks)}
\* the pixels covered by the raw detections that reach the score threshold
KeptPixels(a) == UNION {Foreground(a.masks[k]) : k \in KeptPositions(a)}

\* C25: splitting and pass-1 merging of detections conserve pixels: the union
\* of the masks of all pass-1 merged instances equals the union of the masks
\* of all raw detections with score >= score_thr (and so does the union of
\* the split regions), and every final instance's mask is a subset of it.
C25_SplitAndMergeConservePixels ==
    AfterDet =>
        /\ Pixels(analyzer.masks_det) = KeptPixels(analyzer)
        /\ Pixels(analyzer.masks_merged) = KeptPixels(analyzer)
        /\ \A g \in 1..Len(analyzer.masks_final) :
             Foreground(analyzer.masks_final[g]) \subseteq KeptPixels(analyzer)
\* a detection of two separate parts is split and its parts are merged with
\* a second detection that touches both
C25_Witness ==
    /\ AfterDet
    /\ \E k \in KeptPositions(analyzer) : NComponents(analyzer.masks[k]) = 2
    /\ Len(analyzer.masks_det) = 3
    /\ Len(analyzer.masks_merged) = 1
    /\ Len(analyzer.masks_final) = 1
    /\ Cardinality(KeptPixels(analyzer)) = 3

====
